---- MODULE Spec2Model ----
(***************************************************************************)
(* A model of SoftLayer/managers/firewall.py: the has_firewall helper and  *)
(* the FirewallManager operations.  The manager keeps no state of its own: *)
(* an operation is a short sequence of remote calls with local code in     *)
(* between.  One action models one step of an operation: the remote call   *)
(* it issues, the response it receives (an input, drawn from a small set,  *)
(* a remote fault included) and the local code that runs up to the next    *)
(* remote call or to the operation's end.                                  *)
(***************************************************************************)
EXTENDS Integers, Sequences, FiniteSets, TLC

VARIABLES
    op,        \* the operation invoked last ("none" before the first)
    args,      \* its arguments
    pc,        \* "idle" at rest, "done" when an operation has ended, else
               \* the label of the operation's next step
    calls,     \* the remote calls issued by the operation so far, in order
    response,  \* the response to the last remote call, while the code that
               \* received it has it
    locals,    \* the local variables the operation has assigned
    outcome    \* how the operation ended: a return value or an exception

vars == <<op, args, pc, calls, response, locals, outcome>>

(***************************************************************************)
(* Bounds and input domains.                                                *)
(***************************************************************************)
MaxIfaces == 3     \* frontend network components in one response
MaxVlans == 3      \* VLANs in one getNetworkVlans response
MaxPackages == 2   \* items in one getItems response
MaxPrices == 2     \* prices of one catalog item
MaxFwlIfaces == 2  \* firewall interfaces of a VLAN
MaxAcls == 2       \* access control lists of a firewall interface

Speeds == {5, 10, 30}
ServerIds == {101, 102}
FirewallIds == {7, 8}
VlanIds == {1, 2}
PriceIds == {21, 22}
BillingIds == {31}
Dates == {"2024-01-01", "2024-01-02", "2024-03-01"}

SeqsUpTo(S, n) == UNION {[1..k -> S] : k \in 0..n}

(***************************************************************************)
(* Python values whose truth value the code tests.                          *)
(***************************************************************************)
PyNone == [t |-> "none"]
PyBool(b) == [t |-> "bool", v |-> b]
PyInt(n) == [t |-> "int", v |-> n]
PyList(s) == [t |-> "list", v |-> s]
PyStr(s) == [t |-> "str", v |-> s]

IsNone(x) == "t" \in DOMAIN x /\ x.t = "none"

\* bool(x): None, False, 0, the empty list and the empty string are false.
bool(x) ==
    CASE x.t = "none" -> FALSE
      [] x.t = "str" -> x.v # ""
      [] x.t = "bool" -> x.v
      [] x.t = "int" -> x.v # 0
      [] x.t = "list" -> Len(x.v) > 0

\* a or b: the first operand when it is true, else the second.
py_or(a, b) == IF bool(a) THEN a ELSE b

\* d.get(key, default)
get(d, key, default) == IF key \in DOMAIN d THEN d[key] ELSE default

(***************************************************************************)
(* Outcomes and remote responses.                                           *)
(***************************************************************************)
Running == [kind |-> "running"]
Return(v) == [kind |-> "return", value |-> v]
Raise(exc, msg) == [kind |-> "raise", exc |-> exc, msg |-> msg]

\* A remote call either raises a service fault, which has a fault code, or
\* returns a value.
FaultCodes == {"SoftLayer_Exception_ObjectNotFound", "SoftLayer_Exception_Public"}
Fault(code) == [ok |-> FALSE, fault |-> code]
Ok(v) == [ok |-> TRUE, val |-> v]
Responses(S) == {Fault(code) : code \in FaultCodes} \cup {Ok(v) : v \in S}
NoResponse == [ok |-> TRUE, val |-> PyNone]

\* The exception a faulting remote call raises in the caller: no code of the
\* manager catches it, it leaves the operation as it is.
RemoteError(resp) == Raise("SoftLayerAPIError", resp.fault)

Call(service, method, params, resp) ==
    [service |-> service, method |-> method, params |-> params, ok |-> resp.ok]

Mutating(c) == c.method \in {"placeOrder", "cancelService", "createObject"}

(***************************************************************************)
(* has_firewall                                                             *)
(***************************************************************************)
IndicatorFields ==
    {"dedicatedFirewallFlag", "highAvailabilityFirewallFlag",
     "firewallInterfaces", "firewallNetworkComponents",
     "firewallGuestNetworkComponents"}

FieldValues ==
    {PyNone, PyBool(FALSE), PyBool(TRUE), PyInt(0), PyList(<<>>),
     PyList(<<"component">>)}

\* A VLAN record: any subset of the indicator fields, any value for each.
VlanRecords == UNION {[K -> FieldValues] : K \in SUBSET IndicatorFields}

has_firewall_first_four(vlan) ==
    bool(py_or(get(vlan, "dedicatedFirewallFlag", PyNone),
         py_or(get(vlan, "highAvailabilityFirewallFlag", PyNone),
         py_or(get(vlan, "firewallInterfaces", PyNone),
               get(vlan, "firewallNetworkComponents", PyNone)))))

has_firewall(vlan) ==
    bool(py_or(get(vlan, "dedicatedFirewallFlag", PyNone),
         py_or(get(vlan, "highAvailabilityFirewallFlag", PyNone),
         py_or(get(vlan, "firewallInterfaces", PyNone),
         py_or(get(vlan, "firewallNetworkComponents", PyNone),
               get(vlan, "firewallGuestNetworkComponents", PyNone))))))

\* An operation is invoked on a manager at rest.
Begin(name, a) ==
    /\ op' = name
    /\ args' = a

\* An operation (or its last step) ends with outcome out.
End(out) ==
    /\ pc' = "done"
    /\ outcome' = out

HasFirewall ==
    /\ pc = "idle"
    /\ \E vlan \in VlanRecords :
        /\ Begin("has_firewall", [vlan |-> vlan])
        /\ calls' = <<>>
        /\ response' = NoResponse
        /\ locals' = <<>>
        /\ End(Return(has_firewall(vlan)))

(***************************************************************************)
(* get_firewalls                                                            *)
(***************************************************************************)
FIREWALLS_MASK ==
    "firewallNetworkComponents,networkVlanFirewall,dedicatedFirewallFlag,firewallGuestNetworkComponents,firewallInterfaces,firewallRules,highAvailabilityFirewallFlag"

\* The VLANs a getNetworkVlans response is made of.
SampleFlags ==
    {<<>>,
     [dedicatedFirewallFlag |-> PyInt(1)],
     [dedicatedFirewallFlag |-> PyInt(0), firewallInterfaces |-> PyList(<<>>)],
     [firewallGuestNetworkComponents |-> PyList(<<"component">>)]}

SampleVlans == {("id" :> i) @@ f : i \in VlanIds, f \in SampleFlags}

\* [firewall for firewall in vlans if has_firewall(firewall)]
RECURSIVE firewalls_of(_)
firewalls_of_drop_last(vlans) ==
    IF vlans = <<>> THEN <<>>
    ELSE IF has_firewall(Head(vlans)) /\ Len(vlans) > 1
         THEN <<Head(vlans)>> \o firewalls_of(Tail(vlans))
         ELSE firewalls_of(Tail(vlans))

firewalls_of(vlans) ==
    IF vlans = <<>> THEN <<>>
    ELSE IF has_firewall(Head(vlans))
         THEN <<Head(vlans)>> \o firewalls_of(Tail(vlans))
         ELSE firewalls_of(Tail(vlans))

GetFirewalls ==
    /\ pc = "idle"
    /\ \E resp \in Responses(SeqsUpTo(SampleVlans, MaxVlans)) :
        /\ Begin("get_firewalls", <<>>)
        /\ calls' = <<Call("Account", "getNetworkVlans",
                           [mask |-> FIREWALLS_MASK], resp)>>
        /\ response' = resp
        /\ locals' = <<>>
        /\ End(IF resp.ok THEN Return(firewalls_of(resp.val)) ELSE RemoteError(resp))

(***************************************************************************)
(* _get_fwl_port_speed                                                      *)
(***************************************************************************)
Max2(a, b) == IF a >= b THEN a ELSE b

\* max(list) of a non-empty list of integers
RECURSIVE py_max(_)
py_max(list) ==
    IF Len(list) = 1 THEN list[1] ELSE Max2(list[1], py_max(Tail(list)))

Member(s) == [maxSpeed |-> s]

\* The member lists a networkComponentGroup comes with.
Groups ==
    {<<Member(10), Member(10)>>, <<Member(5)>>, <<Member(30), Member(10)>>,
     <<Member(5), Member(10), Member(30)>>}

\* A frontend network component: ungrouped, or with the group it is one of
\* the members of.
Interfaces ==
    {Member(s) : s \in Speeds}
    \cup {[maxSpeed |-> g[k].maxSpeed,
           networkComponentGroup |-> [networkComponents |-> g]] :
            <<g, k>> \in {<<h, j>> \in Groups \X (1..3) : j <= Len(h)}}

\* A virtual guest as fetched with mask primaryNetworkComponent[maxSpeed].
Guests ==
    {[primaryNetworkComponent |-> Member(s)] : s \in Speeds} \cup {[id |-> 0]}

HasGroup(interface) == "networkComponentGroup" \in DOMAIN interface
NoGroup(interface) == ~HasGroup(interface)

\* [interface[group][components] for interface in ... if group in interface]
grouped(network_components) ==
    LET with == SelectSeq(network_components, HasGroup)
    IN  [k \in 1..Len(with) |-> with[k].networkComponentGroup.networkComponents]

\* [interface for interface in ... if group not in interface]
ungrouped(network_components) == SelectSeq(network_components, NoGroup)

\* group_speed = 0; for interface in group: group_speed += maxSpeed
RECURSIVE group_speed(_)
group_speed(group) ==
    IF group = <<>> THEN 0 ELSE Head(group).maxSpeed + group_speed(Tail(group))

group_speeds(groups) == [k \in 1..Len(groups) |-> group_speed(groups[k])]

\* max_ungrouped = 0; for interface in ungrouped: max(max_ungrouped, maxSpeed)
RECURSIVE max_ungrouped(_)
max_ungrouped(interfaces) ==
    IF interfaces = <<>> THEN 0
    ELSE Max2(max_ungrouped(SubSeq(interfaces, 1, Len(interfaces) - 1)),
              interfaces[Len(interfaces)].maxSpeed)

\* The physical branch once the components are fetched: max() of an empty
\* list of group speeds raises ValueError.
physical_port_speed_grouped_only(network_components) ==
    LET speeds == group_speeds(grouped(network_components))
    IN  IF speeds = <<>>
        THEN Raise("ValueError", "max() arg is an empty sequence")
        ELSE Return(py_max(speeds))

physical_port_speed(network_components) ==
    LET speeds == group_speeds(grouped(network_components))
    IN  IF speeds = <<>>
        THEN Raise("ValueError", "max() arg is an empty sequence")
        ELSE Return(Max2(py_max(speeds),
                         max_ungrouped(ungrouped(network_components))))

\* The virtual branch once the guest is fetched.
virtual_port_speed_zero(primary) ==
    IF "primaryNetworkComponent" \in DOMAIN primary
    THEN Return(0)
    ELSE Raise("KeyError", "primaryNetworkComponent")

virtual_port_speed(primary) ==
    IF "primaryNetworkComponent" \in DOMAIN primary
    THEN Return(primary.primaryNetworkComponent.maxSpeed)
    ELSE Raise("KeyError", "primaryNetworkComponent")

PORT_SPEED_VIRT_MASK == "primaryNetworkComponent[maxSpeed]"
PORT_SPEED_HW_MASK == "id,maxSpeed,networkComponentGroup.networkComponents"

\* The remote call _get_fwl_port_speed issues.
port_speed_call(server_id, is_virt, resp) ==
    IF is_virt
    THEN Call("Virtual_Guest", "getObject",
              [mask |-> PORT_SPEED_VIRT_MASK, id |-> server_id], resp)
    ELSE Call("Hardware_Server", "getFrontendNetworkComponents",
              [mask |-> PORT_SPEED_HW_MASK, id |-> server_id], resp)

\* What _get_fwl_port_speed ends with, given the response to its call.
port_speed_outcome_wrapping_fault(is_virt, resp) ==
    IF ~resp.ok THEN Raise("SoftLayerError", "Unable to determine port speed")
    ELSE IF is_virt THEN virtual_port_speed(resp.val)
    ELSE physical_port_speed(resp.val)

port_speed_outcome(is_virt, resp) ==
    IF ~resp.ok THEN RemoteError(resp)
    ELSE IF is_virt THEN virtual_port_speed(resp.val)
    ELSE physical_port_speed(resp.val)

ServerArgs == [server_id : ServerIds, is_virt : BOOLEAN]

\* _get_fwl_port_speed(server_id, is_virt) is invoked.
get_fwl_port_speed ==
    /\ pc = "idle"
    /\ \E a \in ServerArgs : Begin("_get_fwl_port_speed", a)
    /\ pc' = "fetch_port_speed"
    /\ UNCHANGED <<calls, response, locals, outcome>>

\* The fetch of _get_fwl_port_speed and the code after it; the callers
\* get_standard_package and add_standard_firewall go on with the speed.
FetchPortSpeed ==
    /\ pc = "fetch_port_speed"
    /\ \E resp \in (IF args.is_virt THEN Responses(Guests)
                    ELSE Responses(SeqsUpTo(Interfaces, MaxIfaces))) :
        LET out == port_speed_outcome(args.is_virt, resp)
        IN  /\ calls' = Append(calls,
                          port_speed_call(args.server_id, args.is_virt, resp))
            /\ IF out.kind = "return" /\ op # "_get_fwl_port_speed"
               THEN \* back in get_standard_package: the speed is all that
                    \* is left of what _get_fwl_port_speed fetched
                    /\ locals' = ("firewall_port_speed" :> out.value) @@ locals
                    /\ response' = NoResponse
                    /\ pc' = "getItems_standard"
                    /\ outcome' = outcome
               ELSE /\ locals' = locals
                    /\ response' = resp
                    /\ End(out)
    /\ UNCHANGED <<op, args>>

(***************************************************************************)
(* get_standard_package, get_dedicated_package, add_standard_firewall,      *)
(* add_vlan_firewall                                                         *)
(***************************************************************************)
\* A catalog item: its prices, in order.
Prices == {[id |-> p] : p \in PriceIds}
Items == {[prices |-> ps] : ps \in SeqsUpTo(Prices, MaxPrices)}
Receipts == {[orderId |-> 900]}

\* utils.query_filter of a description that is no number and has no
\* operator or wildcard in it: an exact, case-insensitive match.
query_filter(query) == [operation |-> "_= " \o query]

\* "%s%s" % (firewall_port_speed, "Mbps Hardware Firewall")
standard_description(firewall_port_speed) ==
    ToString(firewall_port_speed) \o "Mbps Hardware Firewall"

dedicated_description(ha_enabled) ==
    IF ha_enabled THEN "Hardware Firewall (High Availability)"
    ELSE "Hardware Firewall (Dedicated)"

\* prod_pkg.getItems(id=0, filter={'items': {'description': ...}})
get_items_call(description, resp) ==
    Call("Product_Package", "getItems",
         [id |-> 0,
          filter |-> [items |-> [description |-> query_filter(description)]]],
         resp)

STANDARD_ORDER_TYPE == "SoftLayer_Container_Product_Order_Network_Protection_Firewall"
DEDICATED_ORDER_TYPE ==
    "SoftLayer_Container_Product_Order_Network_Protection_Firewall_Dedicated"

\* package[0]['prices'][0]['id']: IndexError on an empty list.
first_price_id_defaulting(package) ==
    IF package = <<>> \/ package[1].prices = <<>>
    THEN Return(0)
    ELSE Return(package[1].prices[1].id)

first_price_id(package) ==
    IF package = <<>> \/ package[1].prices = <<>>
    THEN Raise("IndexError", "list index out of range")
    ELSE Return(package[1].prices[1].id)

\* The order add_standard_firewall builds from the fetched package.
standard_order_always_guest(server_id, is_virt, package) ==
    LET price == first_price_id(package)
    IN  IF price.kind = "raise" THEN price
        ELSE Return([complexType |-> STANDARD_ORDER_TYPE,
                     quantity |-> 1,
                     packageId |-> 0,
                     virtualGuests |-> <<[id |-> server_id]>>,
                     prices |-> <<[id |-> price.value]>>])

standard_order(server_id, is_virt, package) ==
    LET price == first_price_id(package)
    IN  IF price.kind = "raise" THEN price
        ELSE IF is_virt
        THEN Return([complexType |-> STANDARD_ORDER_TYPE,
                     quantity |-> 1,
                     packageId |-> 0,
                     virtualGuests |-> <<[id |-> server_id]>>,
                     prices |-> <<[id |-> price.value]>>])
        ELSE Return([complexType |-> STANDARD_ORDER_TYPE,
                     quantity |-> 1,
                     packageId |-> 0,
                     hardware |-> <<[id |-> server_id]>>,
                     prices |-> <<[id |-> price.value]>>])

\* The order add_vlan_firewall builds from the fetched package.
vlan_order(vlan_id, package) ==
    LET price == first_price_id(package)
    IN  IF price.kind = "raise" THEN price
        ELSE Return([complexType |-> DEDICATED_ORDER_TYPE,
                     quantity |-> 1,
                     packageId |-> 0,
                     vlanId |-> vlan_id,
                     prices |-> <<[id |-> price.value]>>])

\* get_standard_package(server_id, is_virt) is invoked.
get_standard_package ==
    /\ pc = "idle"
    /\ \E a \in ServerArgs : Begin("get_standard_package", a)
    /\ pc' = "fetch_port_speed"
    /\ UNCHANGED <<calls, response, locals, outcome>>

\* add_standard_firewall(server_id, is_virt) is invoked.
add_standard_firewall ==
    /\ pc = "idle"
    /\ \E a \in ServerArgs : Begin("add_standard_firewall", a)
    /\ pc' = "fetch_port_speed"
    /\ UNCHANGED <<calls, response, locals, outcome>>

\* get_dedicated_package(ha_enabled) is invoked.
get_dedicated_package ==
    /\ pc = "idle"
    /\ \E ha \in BOOLEAN : Begin("get_dedicated_package", [ha_enabled |-> ha])
    /\ pc' = "getItems_dedicated"
    /\ UNCHANGED <<calls, response, locals, outcome>>

\* add_vlan_firewall(vlan_id, ha_enabled) is invoked.
add_vlan_firewall ==
    /\ pc = "idle"
    /\ \E a \in [vlan_id : VlanIds, ha_enabled : BOOLEAN] :
          Begin("add_vlan_firewall", a)
    /\ pc' = "getItems_dedicated"
    /\ UNCHANGED <<calls, response, locals, outcome>>

\* After a getItems answered resp: the package getter returns it, the order
\* builder goes on to placeOrder with the order built from it.
AfterGetItems(resp, getter, order) ==
    IF ~resp.ok
    THEN /\ End(RemoteError(resp))
         /\ locals' = locals
    ELSE IF op = getter
    THEN /\ End(Return(resp.val))
         /\ locals' = locals
    ELSE IF order.kind = "raise"
    THEN /\ End(order)
         /\ locals' = ("package" :> resp.val) @@ locals
    ELSE /\ pc' = "placeOrder"
         /\ outcome' = outcome
         /\ locals' = ("product_order" :> order.value)
                        @@ ("package" :> resp.val) @@ locals

\* The getItems of get_standard_package and the code after it.
GetItemsStandard ==
    /\ pc = "getItems_standard"
    /\ \E resp \in Responses(SeqsUpTo(Items, MaxPackages)) :
        /\ calls' = Append(calls,
             get_items_call(standard_description(locals.firewall_port_speed),
                            resp))
        /\ response' = resp
        /\ AfterGetItems(resp, "get_standard_package",
             IF resp.ok
             THEN standard_order(args.server_id, args.is_virt, resp.val)
             ELSE RemoteError(resp))
    /\ UNCHANGED <<op, args>>

\* The getItems of get_dedicated_package and the code after it.
GetItemsDedicated ==
    /\ pc = "getItems_dedicated"
    /\ \E resp \in Responses(SeqsUpTo(Items, MaxPackages)) :
        /\ calls' = Append(calls,
             get_items_call(dedicated_description(args.ha_enabled), resp))
        /\ response' = resp
        /\ AfterGetItems(resp, "get_dedicated_package",
             IF resp.ok THEN vlan_order(args.vlan_id, resp.val)
             ELSE RemoteError(resp))
    /\ UNCHANGED <<op, args>>

\* client['Product_Order'].placeOrder(product_order)
PlaceOrder ==
    /\ pc = "placeOrder"
    /\ \E resp \in Responses(Receipts) :
        /\ calls' = Append(calls,
             Call("Product_Order", "placeOrder",
                  [order |-> locals.product_order], resp))
        /\ response' = resp
        /\ End(IF resp.ok THEN Return(resp.val) ELSE RemoteError(resp))
    /\ UNCHANGED <<op, args, locals>>

(***************************************************************************)
(* _get_fwl_billing_item, cancel_firewall                                   *)
(***************************************************************************)
BILLING_MASK == "mask[id,billingItem[id]]"

\* What getObject may answer for a firewall id: nothing, a firewall with no
\* billingItem key, one whose billingItem is None, a billed firewall.
FirewallObjects(firewall_id) ==
    {PyNone, [id |-> firewall_id], [id |-> firewall_id, billingItem |-> PyNone]}
    \cup {[id |-> firewall_id, billingItem |-> [id |-> b]] : b \in BillingIds}

\* "Unable to find firewall %d" % firewall_id
NotFoundMessage(firewall_id) == "Unable to find firewall " \o ToString(firewall_id)

\* "Unable to find billing item for firewall %d" % firewall_id
BillingMissingMessage(firewall_id) ==
    "Unable to find billing item for firewall " \o ToString(firewall_id)

\* The two checks of _get_fwl_billing_item on the fetched firewall.
billing_item_one_message(firewall, firewall_id) ==
    IF IsNone(firewall) \/ IsNone(get(firewall, "billingItem", PyNone))
    THEN Raise("SoftLayerError", NotFoundMessage(firewall_id))
    ELSE Return(firewall.billingItem)

billing_item(firewall, firewall_id) ==
    IF IsNone(firewall)
    THEN Raise("SoftLayerError", NotFoundMessage(firewall_id))
    ELSE IF IsNone(get(firewall, "billingItem", PyNone))
    THEN Raise("SoftLayerError", BillingMissingMessage(firewall_id))
    ELSE Return(firewall.billingItem)

\* What _get_fwl_billing_item ends with, given the response to its getObject.
billing_item_outcome_swallowing_fault(resp, firewall_id) ==
    IF ~resp.ok THEN Return([id |-> 0])
    ELSE billing_item(resp.val, firewall_id)

billing_item_outcome(resp, firewall_id) ==
    IF ~resp.ok THEN RemoteError(resp)
    ELSE billing_item(resp.val, firewall_id)

\* The getObject of _get_fwl_billing_item.
billing_item_call(firewall_id, dedicated, resp) ==
    Call(IF dedicated THEN "Network_Vlan_Firewall"
         ELSE "Network_Component_Firewall",
         "getObject", [id |-> firewall_id, mask |-> BILLING_MASK], resp)

FirewallArgs == [firewall_id : FirewallIds, dedicated : BOOLEAN]

\* _get_fwl_billing_item(firewall_id, dedicated) is invoked.
get_fwl_billing_item ==
    /\ pc = "idle"
    /\ \E a \in FirewallArgs : Begin("_get_fwl_billing_item", a)
    /\ pc' = "fetch_billing_item"
    /\ UNCHANGED <<calls, response, locals, outcome>>

\* cancel_firewall(firewall_id, dedicated) is invoked.
cancel_firewall ==
    /\ pc = "idle"
    /\ \E a \in FirewallArgs : Begin("cancel_firewall", a)
    /\ pc' = "fetch_billing_item"
    /\ UNCHANGED <<calls, response, locals, outcome>>

\* The getObject of _get_fwl_billing_item and its two checks; cancel_firewall
\* goes on with the billing item.
FetchBillingItem ==
    /\ pc = "fetch_billing_item"
    /\ \E resp \in Responses(FirewallObjects(args.firewall_id)) :
        LET out == billing_item_outcome(resp, args.firewall_id)
        IN  /\ calls' = Append(calls,
                  billing_item_call(args.firewall_id, args.dedicated, resp))
            /\ response' = resp
            /\ IF out.kind = "return" /\ op = "cancel_firewall"
               THEN /\ locals' = ("fwl_billing" :> out.value)
                                   @@ (IF resp.ok
                                       THEN ("firewall" :> resp.val) @@ locals
                                       ELSE locals)
                    /\ pc' = "cancelService"
                    /\ outcome' = outcome
               ELSE /\ locals' = IF resp.ok
                                 THEN ("firewall" :> resp.val) @@ locals
                                 ELSE locals
                    /\ End(out)
    /\ UNCHANGED <<op, args>>

\* billing_item_service.cancelService(id=fwl_billing['id'])
CancelService ==
    /\ pc = "cancelService"
    /\ \E resp \in Responses({TRUE}) :
        /\ calls' = Append(calls,
             Call("Billing_Item", "cancelService",
                  [id |-> locals.fwl_billing.id], resp))
        /\ response' = resp
        /\ End(IF resp.ok THEN Return(resp.val) ELSE RemoteError(resp))
    /\ UNCHANGED <<op, args, locals>>

(***************************************************************************)
(* edit_dedicated_fwl_rules, edit_standard_fwl_rules                        *)
(***************************************************************************)
ACL_MASK ==
    "mask[networkVlan[firewallInterfaces[firewallContextAccessControlLists]]]"

Rule(n) == [orderValue |-> n, action |-> "permit"]
RuleLists == {<<>>, <<Rule(1)>>, <<Rule(2), Rule(1)>>}

\* The id of the j-th access control list of the i-th interface: every list
\* has an id of its own.
AclId(i, j) == 10 * i + j

\* A firewall interface by its name and the directions of its lists.
InterfaceShapes ==
    [name : {"inside", "outside"}, directions : SeqsUpTo({"in", "out"}, MaxAcls)]

\* The firewall object getObject answers with the mask ACL_MASK.
vlan_firewall(shapes) ==
    [networkVlan |->
       [firewallInterfaces |->
          [i \in 1..Len(shapes) |->
             [name |-> shapes[i].name,
              firewallContextAccessControlLists |->
                 [j \in 1..Len(shapes[i].directions) |->
                    [direction |-> shapes[i].directions[j],
                     id |-> AclId(i, j)]]]]]]

VlanFirewalls ==
    {PyNone} \cup {vlan_firewall(sh) : sh \in SeqsUpTo(InterfaceShapes, MaxFwlIfaces)}

\* fwl_ctx_acl_id: not assigned yet, or assigned.
Unbound == [bound |-> FALSE]
Bound(v) == [bound |-> TRUE, v |-> v]

\* for control_list in ...: if direction == 'out': continue; id = list id
RECURSIVE scan_lists(_, _)
scan_lists_first_match(control_lists, fwl_ctx_acl_id) ==
    IF control_lists = <<>> THEN fwl_ctx_acl_id
    ELSE scan_lists(Tail(control_lists),
                    IF Head(control_lists).direction = "out" \/ fwl_ctx_acl_id.bound
                    THEN fwl_ctx_acl_id
                    ELSE Bound(Head(control_lists).id))

scan_lists(control_lists, fwl_ctx_acl_id) ==
    IF control_lists = <<>> THEN fwl_ctx_acl_id
    ELSE scan_lists(Tail(control_lists),
                    IF Head(control_lists).direction = "out"
                    THEN fwl_ctx_acl_id
                    ELSE Bound(Head(control_lists).id))

\* for fwl1 in ...: if name == 'inside': continue; (the loop above)
RECURSIVE scan_interfaces(_, _)
scan_interfaces(interfaces, fwl_ctx_acl_id) ==
    IF interfaces = <<>> THEN fwl_ctx_acl_id
    ELSE scan_interfaces(Tail(interfaces),
            IF Head(interfaces).name = "inside"
            THEN fwl_ctx_acl_id
            ELSE scan_lists(Head(interfaces).firewallContextAccessControlLists,
                            fwl_ctx_acl_id))

\* The template edit_dedicated_fwl_rules builds from the fetched firewall:
\* subscripting None raises TypeError, reading fwl_ctx_acl_id when no list
\* assigned it raises UnboundLocalError.
dedicated_template_defaulting_id(fwl, rules) ==
    IF IsNone(fwl)
    THEN Raise("TypeError", "'NoneType' object is not subscriptable")
    ELSE LET fwl_ctx_acl_id ==
                 scan_interfaces(fwl.networkVlan.firewallInterfaces, Unbound)
         IN  IF ~fwl_ctx_acl_id.bound
             THEN Return([firewallContextAccessControlListId |-> 0,
                          rules |-> rules])
             ELSE Return([firewallContextAccessControlListId |-> fwl_ctx_acl_id.v,
                          rules |-> rules])

dedicated_template(fwl, rules) ==
    IF IsNone(fwl)
    THEN Raise("TypeError", "'NoneType' object is not subscriptable")
    ELSE LET fwl_ctx_acl_id ==
                 scan_interfaces(fwl.networkVlan.firewallInterfaces, Unbound)
         IN  IF ~fwl_ctx_acl_id.bound
             THEN Raise("UnboundLocalError", "fwl_ctx_acl_id")
             ELSE Return([firewallContextAccessControlListId |-> fwl_ctx_acl_id.v,
                          rules |-> rules])

\* {'networkComponentFirewallId': firewall_id, 'rules': rules}
standard_template(firewall_id, rules) ==
    [networkComponentFirewallId |-> firewall_id, rules |-> rules]

RulesArgs == [firewall_id : FirewallIds, rules : RuleLists]

\* edit_dedicated_fwl_rules(firewall_id, rules) is invoked.
edit_dedicated_fwl_rules ==
    /\ pc = "idle"
    /\ \E a \in RulesArgs : Begin("edit_dedicated_fwl_rules", a)
    /\ pc' = "fetch_vlan_firewall"
    /\ UNCHANGED <<calls, response, locals, outcome>>

\* The getObject of edit_dedicated_fwl_rules, the scan and the template.
FetchVlanFirewall ==
    /\ pc = "fetch_vlan_firewall"
    /\ \E resp \in Responses(VlanFirewalls) :
        LET out == IF resp.ok THEN dedicated_template(resp.val, args.rules)
                   ELSE RemoteError(resp)
        IN  /\ calls' = Append(calls,
                  Call("Network_Vlan_Firewall", "getObject",
                       [id |-> args.firewall_id, mask |-> ACL_MASK], resp))
            /\ response' = resp
            /\ IF out.kind = "return"
               THEN /\ locals' = ("template" :> out.value)
                                   @@ ("fwl" :> resp.val) @@ locals
                    /\ pc' = "createObject"
                    /\ outcome' = outcome
               ELSE /\ locals' = IF resp.ok THEN ("fwl" :> resp.val) @@ locals
                                 ELSE locals
                    /\ End(out)
    /\ UNCHANGED <<op, args>>

\* edit_standard_fwl_rules(firewall_id, rules) is invoked and builds its
\* template; its first remote call is the createObject.
edit_standard_fwl_rules ==
    /\ pc = "idle"
    /\ \E a \in RulesArgs :
        /\ Begin("edit_standard_fwl_rules", a)
        /\ locals' = ("template" :> standard_template(a.firewall_id, a.rules))
                       @@ locals
    /\ pc' = "createObject"
    /\ UNCHANGED <<calls, response, outcome>>

\* client['Network_Firewall_Update_Request'].createObject(template)
CreateObject ==
    /\ pc = "createObject"
    /\ \E resp \in Responses({[id |-> 500]}) :
        /\ calls' = Append(calls,
             Call("Network_Firewall_Update_Request", "createObject",
                  [template |-> locals.template], resp))
        /\ response' = resp
        /\ End(IF resp.ok THEN Return(resp.val) ELSE RemoteError(resp))
    /\ UNCHANGED <<op, args, locals>>

(***************************************************************************)
(* The operations of one remote call: get_standard_fwl_rules,               *)
(* get_dedicated_fwl_rules, get_instance, get_firewalls_gatewalls,          *)
(* get_summary                                                               *)
(***************************************************************************)
RULE_MASK ==
    "mask[orderValue,action,destinationIpAddress,destinationIpSubnetMask,protocol,destinationPortRangeStart,destinationPortRangeEnd,sourceIpAddress,sourceIpSubnetMask,version,notes]"

INSTANCE_MASK ==
    "mask[firewallType,datacenter,managementCredentials,networkVlan,metricTrackingObject[data,type],networkGateway[insideVlans,members,privateIpAddress,publicIpAddress,publicIpv6Address,privateVlan,publicVlan,status]]"

GATEWALLS_MASK ==
    "mask[id,networkSpace,name,networkFirewall[id,firewallType,datacenter[name]],status[keyName],insideVlans[id],privateIpAddress[ipAddress],publicVlan[id,primaryRouter[hostname]],publicIpAddress[ipAddress],members[id,hardware[hostname]]]"

GATEWALLS_FILTER ==
    [networkGateways |-> [networkFirewall |-> [operation |-> "not null"]]]

SUMMARY_GRANULARITY == 86400

SUMMARY_BODY ==
    <<[keyName |-> "PUBLICIN", summaryType |-> "sum"],
      [keyName |-> "PUBLICOUT", summaryType |-> "sum"]>>

\* The masks a caller of get_instance passes: none, an empty one, its own.
CallerMasks == {PyNone, PyStr(""), PyStr("mask[id]"), PyStr("mask[id,networkVlan]")}

\* if not mask: mask = (the default mask)
instance_mask_always_default(mask) == PyStr(INSTANCE_MASK)

instance_mask(mask) == IF ~bool(mask) THEN PyStr(INSTANCE_MASK) ELSE mask

\* An operation that issues one remote call and returns what it answers.
OneCall(name, a, call, resp) ==
    /\ Begin(name, a)
    /\ calls' = <<call>>
    /\ response' = resp
    /\ locals' = <<>>
    /\ End(IF resp.ok THEN Return(resp.val) ELSE RemoteError(resp))

get_standard_fwl_rules ==
    /\ pc = "idle"
    /\ \E firewall_id \in FirewallIds, resp \in Responses(RuleLists) :
        OneCall("get_standard_fwl_rules", [firewall_id |-> firewall_id],
                Call("Network_Component_Firewall", "getRules",
                     [id |-> firewall_id, mask |-> RULE_MASK], resp),
                resp)

get_dedicated_fwl_rules ==
    /\ pc = "idle"
    /\ \E firewall_id \in FirewallIds, resp \in Responses(RuleLists) :
        OneCall("get_dedicated_fwl_rules", [firewall_id |-> firewall_id],
                Call("Network_Vlan_Firewall", "getRules",
                     [id |-> firewall_id, mask |-> RULE_MASK], resp),
                resp)

get_instance ==
    /\ pc = "idle"
    /\ \E firewall_id \in FirewallIds, mask \in CallerMasks :
        \E resp \in Responses({PyNone, [id |-> firewall_id]}) :
            OneCall("get_instance", [firewall_id |-> firewall_id, mask |-> mask],
                    Call("Network_Vlan_Firewall", "getObject",
                         [id |-> firewall_id, mask |-> instance_mask(mask)],
                         resp),
                    resp)

get_firewalls_gatewalls ==
    /\ pc = "idle"
    /\ \E resp \in Responses(SeqsUpTo({[id |-> 1]}, 1)) :
        OneCall("get_firewalls_gatewalls", <<>>,
                Call("Account", "getNetworkGateways",
                     [mask |-> GATEWALLS_MASK, filter |-> GATEWALLS_FILTER],
                     resp),
                resp)

\* getSummaryData(start_date, end_date, body, 86400, id=identifier)
summary_call_hourly_within_a_day(identifier, start_date, end_date, resp) ==
    Call("Metric_Tracking_Object", "getSummaryData",
         [positional |-> <<start_date, end_date, SUMMARY_BODY,
                           IF start_date = end_date THEN 3600
                           ELSE SUMMARY_GRANULARITY>>,
          id |-> identifier],
         resp)

summary_call(identifier, start_date, end_date, resp) ==
    Call("Metric_Tracking_Object", "getSummaryData",
         [positional |-> <<start_date, end_date, SUMMARY_BODY,
                           SUMMARY_GRANULARITY>>,
          id |-> identifier],
         resp)

get_summary ==
    /\ pc = "idle"
    /\ \E identifier \in FirewallIds, start_date \in Dates, end_date \in Dates :
        \E resp \in Responses({<<>>, <<[counter |-> 1]>>}) :
            OneCall("get_summary",
                    [identifier |-> identifier, start_date |-> start_date,
                     end_date |-> end_date],
                    summary_call(identifier, start_date, end_date, resp),
                    resp)

(***************************************************************************)
(* Properties of _get_fwl_port_speed.                                       *)
(***************************************************************************)
SetMax(S) == CHOOSE m \in S : \A x \in S : m >= x

RECURSIVE SumTo(_, _)
SumTo(f, n) == IF n = 0 THEN 0 ELSE f[n] + SumTo(f, n - 1)

\* The sum of the maxSpeed of a list of components.
SpeedSum(components) ==
    SumTo([k \in 1..Len(components) |-> components[k].maxSpeed], Len(components))

GroupedAt(nc) == {k \in 1..Len(nc) : HasGroup(nc[k])}
UngroupedAt(nc) == {k \in 1..Len(nc) : ~HasGroup(nc[k])}

\* G: the largest sum of a group's members; U: the largest ungrouped speed.
MaxGroupSum(nc) ==
    SetMax({SpeedSum(nc[k].networkComponentGroup.networkComponents) :
              k \in GroupedAt(nc)})
MaxUngroupedSpeed(nc) == SetMax({0} \cup {nc[k].maxSpeed : k \in UngroupedAt(nc)})

\* _get_fwl_port_speed has ended, its fetch answered, for a physical server.
PhysicalSpeedDone ==
    /\ op = "_get_fwl_port_speed"
    /\ pc = "done"
    /\ ~args.is_virt
    /\ response.ok

VirtualSpeedDone ==
    /\ op = "_get_fwl_port_speed"
    /\ pc = "done"
    /\ args.is_virt
    /\ response.ok

\* C1: for a physical server none of whose frontend components has a
\* networkComponentGroup, _get_fwl_port_speed does not fail and returns the
\* largest maxSpeed among the (ungrouped) components, the empty list of
\* group sums counting as 0.
C1_NoGroupsReturnsMaxUngrouped ==
    (PhysicalSpeedDone /\ GroupedAt(response.val) = {}
                       /\ UngroupedAt(response.val) # {})
        => /\ outcome.kind = "return"
           /\ outcome.value = MaxUngroupedSpeed(response.val)

\* C2 (as amended): for a physical server with at least one grouped
\* component, _get_fwl_port_speed returns max(G, U): G the largest sum of the
\* maxSpeed of a group's members, U the largest maxSpeed of an ungrouped
\* component, 0 if there is none.
C2_GroupedReturnsMaxOfGroupSumAndUngrouped ==
    (PhysicalSpeedDone /\ GroupedAt(response.val) # {})
        => /\ outcome.kind = "return"
           /\ outcome.value = Max2(MaxGroupSum(response.val),
                                   MaxUngroupedSpeed(response.val))

\* Groups [[10,10],[5]] and ungrouped [30] yield 30.
C2_Witness ==
    /\ PhysicalSpeedDone
    /\ Len(response.val) = 3
    /\ HasGroup(response.val[1])
    /\ response.val[1].networkComponentGroup.networkComponents
         = <<Member(10), Member(10)>>
    /\ HasGroup(response.val[2])
    /\ response.val[2].networkComponentGroup.networkComponents = <<Member(5)>>
    /\ response.val[3] = Member(30)
    /\ outcome = Return(30)

\* C2 as stated: max(G, U), and the result is never the sum of the maxSpeed
\* of all the fetched interfaces.
C2_Original ==
    (PhysicalSpeedDone /\ GroupedAt(response.val) # {})
        => /\ outcome.kind = "return"
           /\ outcome.value = Max2(MaxGroupSum(response.val),
                                   MaxUngroupedSpeed(response.val))
           /\ outcome.value # SpeedSum(response.val)

\* C8: for a virtual server _get_fwl_port_speed returns the maxSpeed of the
\* fetched primaryNetworkComponent as it is, after one remote call, the
\* getObject of the guest, and no other.
C8_VirtualReturnsPrimaryMaxSpeed ==
    (VirtualSpeedDone /\ "primaryNetworkComponent" \in DOMAIN response.val)
        => /\ outcome = Return(response.val.primaryNetworkComponent.maxSpeed)
           /\ Len(calls) = 1
           /\ calls[1].service = "Virtual_Guest"
           /\ calls[1].method = "getObject"
           /\ calls[1].params.id = args.server_id

C8_Witness ==
    /\ VirtualSpeedDone
    /\ response.val = [primaryNetworkComponent |-> Member(30)]
    /\ outcome = Return(30)
    /\ Len(calls) = 1

(***************************************************************************)
(* Properties of add_standard_firewall.                                     *)
(***************************************************************************)
PlaceOrderCalls == {k \in 1..Len(calls) : calls[k].method = "placeOrder"}

\* add_standard_firewall has got its package and built its order.
StandardOrderBuilt ==
    /\ op = "add_standard_firewall"
    /\ pc \in {"placeOrder", "done"}
    /\ "product_order" \in DOMAIN locals

\* add_standard_firewall has called placeOrder.
StandardOrderPlaced ==
    /\ op = "add_standard_firewall"
    /\ pc = "done"
    /\ PlaceOrderCalls # {}

\* C9: the order add_standard_firewall places carries the server id under
\* virtualGuests when is_virt and under hardware when not, never under both;
\* its one price is the first price of the first item the catalog query
\* answered, and that query asked for "<port speed>Mbps Hardware Firewall".
C9_StandardOrderPayload ==
    /\ StandardOrderBuilt =>
         /\ pc = "placeOrder" => locals.package = response.val
         /\ locals.product_order.prices
              = <<[id |-> locals.package[1].prices[1].id]>>
         /\ Len(calls) >= 2
         /\ calls[2].service = "Product_Package"
         /\ calls[2].method = "getItems"
         /\ calls[2].params.filter.items.description
              = query_filter(ToString(locals.firewall_port_speed)
                               \o "Mbps Hardware Firewall")
         /\ LET keys == DOMAIN locals.product_order \cap {"virtualGuests", "hardware"}
            IN  /\ keys = IF args.is_virt THEN {"virtualGuests"} ELSE {"hardware"}
                /\ \A key \in keys :
                      locals.product_order[key] = <<[id |-> args.server_id]>>
    /\ StandardOrderPlaced =>
         /\ PlaceOrderCalls = {3}
         /\ calls[3].service = "Product_Order"
         /\ calls[3].params.order = locals.product_order

\* An order for a hardware server placed at the second price id, the first
\* price of the first of two items.
C9_Witness ==
    /\ StandardOrderPlaced
    /\ ~args.is_virt
    /\ Len(locals.package) = 2
    /\ locals.package[1].prices = <<[id |-> 22], [id |-> 21]>>
    /\ calls[3].params.order.prices = <<[id |-> 22]>>
    /\ calls[3].params.order.hardware = <<[id |-> args.server_id]>>
    /\ outcome.kind = "return"

\* add_standard_firewall has ended on a catalog query that answered with an
\* empty list.
EmptyPackageDone ==
    /\ op = "add_standard_firewall"
    /\ pc = "done"
    /\ Len(calls) >= 2
    /\ "package" \in DOMAIN locals
    /\ locals.package = <<>>

\* C10 (as amended): on an empty package list add_standard_firewall fails
\* with the IndexError of package[0], raised locally while the order is
\* built; the ordering service is not called and no order is placed.
C10_EmptyPackageFailsLocally ==
    EmptyPackageDone =>
        /\ outcome = Raise("IndexError", "list index out of range")
        /\ PlaceOrderCalls = {}
        /\ Len(calls) = 2

C10_Witness ==
    /\ EmptyPackageDone
    /\ response = Ok(<<>>)
    /\ outcome.kind = "raise"
    /\ calls[2].method = "getItems"

\* C10 as stated: on an empty package list add_standard_firewall fails with
\* the remote error of the ordering service, and no order is placed.
C10_Original ==
    EmptyPackageDone =>
        /\ outcome.kind = "raise"
        /\ outcome.exc = "SoftLayerAPIError"
        /\ \E k \in PlaceOrderCalls : ~calls[k].ok
        /\ \A k \in PlaceOrderCalls : ~calls[k].ok

(***************************************************************************)
(* Properties of cancel_firewall and of the mutating operations.            *)
(***************************************************************************)
CallsOf(method) == {k \in 1..Len(calls) : calls[k].method = method}

\* cancel_firewall has fetched its firewall object.
CancelFetched ==
    /\ op = "cancel_firewall"
    /\ "firewall" \in DOMAIN locals

Unbilled(firewall) ==
    \/ "billingItem" \notin DOMAIN firewall
    \/ IsNone(firewall.billingItem)

\* C3: cancel_firewall fails with the billing-missing error when the fetched
\* firewall has no billing item and with the not-found error when no
\* firewall was fetched; the two errors differ, whatever the firewall ids,
\* and in neither case is cancelService called.
C3_CancelDistinguishesMissingFirewallAndBilling ==
    /\ (CancelFetched /\ IsNone(locals.firewall)) =>
         /\ pc = "done"
         /\ outcome = Raise("SoftLayerError",
                            "Unable to find firewall "
                              \o ToString(args.firewall_id))
         /\ CallsOf("cancelService") = {}
    /\ (CancelFetched /\ ~IsNone(locals.firewall) /\ Unbilled(locals.firewall)) =>
         /\ pc = "done"
         /\ outcome = Raise("SoftLayerError",
                            "Unable to find billing item for firewall "
                              \o ToString(args.firewall_id))
         /\ CallsOf("cancelService") = {}
    /\ \A f, g \in FirewallIds :
         Raise("SoftLayerError", NotFoundMessage(f))
           # Raise("SoftLayerError", BillingMissingMessage(g))

\* A firewall fetched with a billingItem of None.
C3_Witness ==
    /\ CancelFetched
    /\ locals.firewall = [id |-> args.firewall_id, billingItem |-> PyNone]
    /\ outcome.kind = "raise"
    /\ outcome.msg = BillingMissingMessage(args.firewall_id)
    /\ Len(calls) = 1

\* The calls before the k-th are successful reads, and there is one.
ResolvedBefore(k) ==
    /\ k > 1
    /\ \A j \in 1..(k - 1) : ~Mutating(calls[j]) /\ calls[j].ok

\* C4 as stated: in every operation a mutating remote call comes after a
\* successful remote read of the same operation.
C4_Original ==
    \A k \in 1..Len(calls) :
        Mutating(calls[k]) =>
            \E j \in 1..(k - 1) : ~Mutating(calls[j]) /\ calls[j].ok

\* C4 (as amended): in add_standard_firewall, add_vlan_firewall,
\* cancel_firewall and edit_dedicated_fwl_rules the mutating call is the last
\* call, and every call before it is a read that succeeded: the port speed
\* and the package, the package, the firewall with its billing item, the
\* firewall with its VLAN; edit_standard_fwl_rules issues its createObject
\* as its first call, with no read before it.
C4_MutationAfterResolution ==
    \A k \in 1..Len(calls) :
        Mutating(calls[k]) =>
            /\ k = Len(calls)
            /\ CASE op = "add_standard_firewall" ->
                      /\ ResolvedBefore(k)
                      /\ calls[k].method = "placeOrder"
                      /\ calls[1].params.id = args.server_id
                      /\ calls[2].method = "getItems"
                 [] op = "add_vlan_firewall" ->
                      /\ ResolvedBefore(k)
                      /\ calls[k].method = "placeOrder"
                      /\ calls[1].method = "getItems"
                 [] op = "cancel_firewall" ->
                      /\ ResolvedBefore(k)
                      /\ calls[k].method = "cancelService"
                      /\ calls[1].method = "getObject"
                      /\ calls[1].params.id = args.firewall_id
                      /\ calls[k].params.id = locals.firewall.billingItem.id
                 [] op = "edit_dedicated_fwl_rules" ->
                      /\ ResolvedBefore(k)
                      /\ calls[k].method = "createObject"
                      /\ calls[1].method = "getObject"
                      /\ calls[1].params.id = args.firewall_id
                 [] op = "edit_standard_fwl_rules" ->
                      /\ k = 1
                      /\ calls[k].method = "createObject"
                      /\ calls[k].params.template.networkComponentFirewallId
                           = args.firewall_id
                 [] OTHER -> FALSE

\* A cancellation: the firewall fetched, then its billing item cancelled.
C4_Witness ==
    /\ op = "cancel_firewall"
    /\ pc = "done"
    /\ Len(calls) = 2
    /\ calls[1].ok
    /\ calls[2].method = "cancelService"
    /\ calls[2].ok
    /\ outcome.kind = "return"

(***************************************************************************)
(* Properties of edit_dedicated_fwl_rules.                                  *)
(***************************************************************************)
FwlInterfaces(fwl) == fwl.networkVlan.firewallInterfaces

\* The places <<i, j>> of the lists that qualify: not on an interface named
\* "inside", not of direction "out".
QualifyingAt(fwl) ==
    {p \in (1..Len(FwlInterfaces(fwl))) \X (1..MaxAcls + 1) :
        /\ FwlInterfaces(fwl)[p[1]].name # "inside"
        /\ p[2] <= Len(FwlInterfaces(fwl)[p[1]].firewallContextAccessControlLists)
        /\ FwlInterfaces(fwl)[p[1]].firewallContextAccessControlLists[p[2]].direction
             # "out"}

Before(p, q) == p[1] < q[1] \/ (p[1] = q[1] /\ p[2] <= q[2])

LastQualifying(fwl) ==
    CHOOSE p \in QualifyingAt(fwl) : \A q \in QualifyingAt(fwl) : Before(q, p)

ListIdAt(fwl, p) ==
    FwlInterfaces(fwl)[p[1]].firewallContextAccessControlLists[p[2]].id

\* edit_dedicated_fwl_rules has fetched a firewall with a qualifying list.
DedicatedFetchedQualifying ==
    /\ op = "edit_dedicated_fwl_rules"
    /\ "fwl" \in DOMAIN locals
    /\ ~IsNone(locals.fwl)
    /\ QualifyingAt(locals.fwl) # {}

\* C5: edit_dedicated_fwl_rules submits a template whose
\* firewallContextAccessControlListId is the id of the last qualifying list
\* in iteration order (interfaces in order, lists in order within each) and
\* whose rules are the caller's rules; it calls createObject exactly once.
C5_LastQualifyingListWins ==
    DedicatedFetchedQualifying =>
        /\ pc \in {"createObject", "done"}
        /\ locals.template
             = [firewallContextAccessControlListId
                   |-> ListIdAt(locals.fwl, LastQualifying(locals.fwl)),
                rules |-> args.rules]
        /\ pc = "done" =>
             /\ CallsOf("createObject") = {2}
             /\ calls[2].params.template = locals.template

\* Three lists qualify, on two interfaces; the last is submitted.
C5_Witness ==
    /\ DedicatedFetchedQualifying
    /\ pc = "done"
    /\ QualifyingAt(locals.fwl) = {<<1, 1>>, <<1, 2>>, <<2, 1>>}
    /\ Len(FwlInterfaces(locals.fwl)[2].firewallContextAccessControlLists) = 2
    /\ calls[2].params.template.firewallContextAccessControlListId = AclId(2, 1)
    /\ args.rules = <<Rule(2), Rule(1)>>
    /\ outcome.kind = "return"

(***************************************************************************)
(* Properties of has_firewall and get_firewalls.                            *)
(***************************************************************************)
Truthy(x) ==
    \/ x.t = "bool" /\ x.v
    \/ x.t = "int" /\ x.v # 0
    \/ x.t = "list" /\ x.v # <<>>

\* C6: has_firewall returns, never raises, and returns true exactly when
\* one of the five indicator fields is in the record with a true value.
C6_HasFirewallIffAnIndicatorIsTruthy ==
    (op = "has_firewall" /\ pc = "done") =>
        /\ outcome.kind = "return"
        /\ outcome.value
             = (\E f \in IndicatorFields :
                   f \in DOMAIN args.vlan /\ Truthy(args.vlan[f]))

\* The last of the five fields alone makes a firewall.
C6_Witness ==
    /\ op = "has_firewall"
    /\ pc = "done"
    /\ args.vlan = [firewallGuestNetworkComponents |-> PyList(<<"component">>),
                    dedicatedFirewallFlag |-> PyInt(0)]
    /\ outcome = Return(TRUE)

\* The k-th smallest member of a set of indices.
Nth(S, k) == CHOOSE m \in S : Cardinality({n \in S : n < m}) = k - 1

\* C7: get_firewalls returns the VLANs of the getNetworkVlans response for
\* which has_firewall is true, all of them and no other, in the order of
\* the response.
C7_GetFirewallsIsTheFilteredResponse ==
    (op = "get_firewalls" /\ pc = "done" /\ response.ok) =>
        LET keep == {k \in 1..Len(response.val) : has_firewall(response.val[k])}
        IN  /\ outcome.kind = "return"
            /\ Len(outcome.value) = Cardinality(keep)
            /\ \A i \in 1..Len(outcome.value) :
                  outcome.value[i] = response.val[Nth(keep, i)]

\* A firewall, a VLAN without one, another firewall: the two are returned
\* in that order.
C7_Witness ==
    /\ op = "get_firewalls"
    /\ pc = "done"
    /\ response.ok
    /\ Len(response.val) = 3
    /\ has_firewall(response.val[1])
    /\ ~has_firewall(response.val[2])
    /\ has_firewall(response.val[3])
    /\ response.val[1] # response.val[3]
    /\ outcome = Return(<<response.val[1], response.val[3]>>)

(***************************************************************************)
(* Properties of get_instance.                                              *)
(***************************************************************************)
InstanceDone ==
    /\ op = "get_instance"
    /\ pc = "done"

\* The mask get_instance sent with its getObject.
SentMask == calls[1].params.mask

EmptyMask(mask) == mask.t = "str" /\ mask.v = ""

\* C11 (as amended): get_instance sends the default mask when the caller
\* passes no mask or an empty one, and only then; any other mask of the
\* caller is sent as it is, neither merged with the default nor replaced by
\* it.  The one call is the getObject of the firewall id.
C11_DefaultMaskOnlyForNoOrEmptyMask ==
    InstanceDone =>
        /\ Len(calls) = 1
        /\ calls[1].service = "Network_Vlan_Firewall"
        /\ calls[1].method = "getObject"
        /\ calls[1].params.id = args.firewall_id
        /\ (IsNone(args.mask) \/ EmptyMask(args.mask))
              => SentMask = PyStr(INSTANCE_MASK)
        /\ ~(IsNone(args.mask) \/ EmptyMask(args.mask))
              => SentMask = args.mask /\ SentMask # PyStr(INSTANCE_MASK)

\* A caller's mask sent as it is.
C11_Witness ==
    /\ InstanceDone
    /\ args.mask = PyStr("mask[id,networkVlan]")
    /\ SentMask = PyStr("mask[id,networkVlan]")
    /\ outcome.kind = "return"

\* C11 as stated: the default mask is sent only when the caller passes no
\* mask (None); every mask the caller passes is sent as it is.
C11_Original ==
    InstanceDone =>
        /\ IsNone(args.mask) => SentMask = PyStr(INSTANCE_MASK)
        /\ ~IsNone(args.mask) => SentMask = args.mask

(***************************************************************************)
(* Properties of get_summary.                                               *)
(***************************************************************************)
SummaryDone ==
    /\ op = "get_summary"
    /\ pc = "done"

\* C12: whatever the identifier and the two dates, get_summary passes the
\* granularity 86400 to getSummaryData, and as metrics the two sums
\* PUBLICIN and PUBLICOUT and no other; the dates and the identifier are
\* the caller's.
C12_SummaryIsDailyPublicInAndOut ==
    SummaryDone =>
        /\ Len(calls) = 1
        /\ calls[1].service = "Metric_Tracking_Object"
        /\ calls[1].method = "getSummaryData"
        /\ calls[1].params.id = args.identifier
        /\ Len(calls[1].params.positional) = 4
        /\ calls[1].params.positional[1] = args.start_date
        /\ calls[1].params.positional[2] = args.end_date
        /\ calls[1].params.positional[3]
             = <<[keyName |-> "PUBLICIN", summaryType |-> "sum"],
                 [keyName |-> "PUBLICOUT", summaryType |-> "sum"]>>
        /\ calls[1].params.positional[4] = 86400

\* A summary of one day only, asked at the daily granularity all the same.
C12_Witness ==
    /\ SummaryDone
    /\ args.start_date = "2024-01-01"
    /\ args.end_date = "2024-01-01"
    /\ calls[1].params.positional[4] = 86400
    /\ outcome = Return(<<[counter |-> 1]>>)

(***************************************************************************)
(* Propagation of remote faults, in every operation.                        *)
(***************************************************************************)
FailedCalls == {k \in 1..Len(calls) : ~calls[k].ok}

CallSite(c) == <<c.service, c.method>>

\* C13: in every operation, a remote call that raises a service fault is
\* the operation's last remote call (so no call, and no mutating call,
\* follows a failed one), the operation has ended, and what it raised is
\* that fault itself with its code; and no operation makes the same remote
\* call twice.
C13_FaultEndsTheOperationUnchanged ==
    /\ \A k \in FailedCalls :
          /\ k = Len(calls)
          /\ pc = "done"
          /\ ~response.ok
          /\ outcome = Raise("SoftLayerAPIError", response.fault)
    /\ \A j, k \in 1..Len(calls) :
          CallSite(calls[j]) = CallSite(calls[k]) => j = k

\* add_standard_firewall whose port speed fetch succeeded and whose getItems
\* faulted: it raised the fault and placed no order.
C13_Witness ==
    /\ op = "add_standard_firewall"
    /\ pc = "done"
    /\ Len(calls) = 2
    /\ calls[1].ok
    /\ calls[2].method = "getItems"
    /\ ~calls[2].ok
    /\ outcome = Raise("SoftLayerAPIError", "SoftLayer_Exception_Public")
    /\ CallsOf("placeOrder") = {}

(***************************************************************************)
(* edit_dedicated_fwl_rules when no access control list qualifies.          *)
(***************************************************************************)
\* edit_dedicated_fwl_rules has fetched a firewall none of whose lists
\* qualifies: no interface at all, or only interfaces named "inside", or
\* only lists of direction "out" on the other interfaces.
DedicatedFetchedNoQualifying ==
    /\ op = "edit_dedicated_fwl_rules"
    /\ "fwl" \in DOMAIN locals
    /\ ~IsNone(locals.fwl)
    /\ QualifyingAt(locals.fwl) = {}

QualifyingIds(fwl) == {ListIdAt(fwl, p) : p \in QualifyingAt(fwl)}

\* C14: when the fetched firewall has no qualifying access control list,
\* edit_dedicated_fwl_rules ends by raising an error right after the fetch,
\* has built no template and never calls createObject; and whenever it does
\* call createObject, the context id of the template is the id of a
\* qualifying list of the firewall this very invocation fetched.
C14_NoQualifyingListNoSubmission ==
    /\ DedicatedFetchedNoQualifying =>
          /\ pc = "done"
          /\ outcome.kind = "raise"
          /\ outcome.exc = "UnboundLocalError"
          /\ "template" \notin DOMAIN locals
          /\ Len(calls) = 1
          /\ CallsOf("createObject") = {}
    /\ op = "edit_dedicated_fwl_rules" =>
          \A k \in CallsOf("createObject") :
              /\ "fwl" \in DOMAIN locals
              /\ ~IsNone(locals.fwl)
              /\ calls[k].params.template.firewallContextAccessControlListId
                   \in QualifyingIds(locals.fwl)

\* An "inside" interface with an "in" list and another interface with only
\* an "out" list: nothing qualifies, the operation raised after the fetch.
C14_Witness ==
    /\ DedicatedFetchedNoQualifying
    /\ Len(FwlInterfaces(locals.fwl)) = 2
    /\ FwlInterfaces(locals.fwl)[1].name = "inside"
    /\ Len(FwlInterfaces(locals.fwl)[1].firewallContextAccessControlLists) = 1
    /\ FwlInterfaces(locals.fwl)[1].firewallContextAccessControlLists[1].direction
         = "in"
    /\ FwlInterfaces(locals.fwl)[2].name = "outside"
    /\ Len(FwlInterfaces(locals.fwl)[2].firewallContextAccessControlLists) = 1
    /\ FwlInterfaces(locals.fwl)[2].firewallContextAccessControlLists[1].direction
         = "out"
    /\ pc = "done"
    /\ outcome.kind = "raise"
    /\ CallsOf("createObject") = {}

Init ==
    /\ op = "none"
    /\ args = <<>>
    /\ pc = "idle"
    /\ calls = <<>>
    /\ response = NoResponse
    /\ locals = <<>>
    /\ outcome = Running

\* The caller takes the outcome; nothing of the operation stays behind.
TakeOutcome ==
    /\ pc = "done"
    /\ op' = "none"
    /\ args' = <<>>
    /\ pc' = "idle"
    /\ calls' = <<>>
    /\ response' = NoResponse
    /\ locals' = <<>>
    /\ outcome' = Running

Next ==
    \/ TakeOutcome
    \/ HasFirewall
    \/ GetFirewalls
    \/ get_fwl_port_speed
    \/ FetchPortSpeed
    \/ get_standard_package
    \/ add_standard_firewall
    \/ get_dedicated_package
    \/ add_vlan_firewall
    \/ GetItemsStandard
    \/ GetItemsDedicated
    \/ PlaceOrder
    \/ get_fwl_billing_item
    \/ cancel_firewall
    \/ FetchBillingItem
    \/ CancelService
    \/ edit_dedicated_fwl_rules
    \/ FetchVlanFirewall
    \/ edit_standard_fwl_rules
    \/ CreateObject
    \/ get_standard_fwl_rules
    \/ get_dedicated_fwl_rules
    \/ get_instance
    \/ get_firewalls_gatewalls
    \/ get_summary

Spec == Init /\ [][Next]_vars

====
